---- MODULE Spec2Model ----
(***************************************************************************)
(* Model of src/main.py: the /scrape handler of the Telegram bot, which    *)
(* drives a headless browser through a two-page Google form and extracts   *)
(* the graded questions of the results page into exam.json.                *)
(*                                                                         *)
(* Text is a sequence of one-character strings, so that str.strip(),       *)
(* str.find() and slicing are computed and not assumed.  A DOM query       *)
(* result is the sequence of the matching elements in document order:      *)
(* query_selector takes its first element, query_selector_all all of it.   *)
(***************************************************************************)
EXTENDS Integers, Sequences, FiniteSets, TLC

VARIABLES
    viewscore,  \* the results page handed to extract_exam_data
    exam_data,  \* the list extract_exam_data returns
    xpc,        \* "ready" before the call, "done" after it, "off" when unused
    req,        \* per request: the state of its scrape_command run
    exam_json,  \* the content of the file exam.json, <<>> while it is absent
    running     \* the request whose handler holds the event loop, 0 if none

vars == <<viewscore, exam_data, xpc, req, exam_json, running>>

(***************************************************************************)
(* Bounds of the model.                                                    *)
(***************************************************************************)
MaxTitleLen == 4
MaxBlocks == 3
MaxGlyphs == 2
MaxOptions == 2
MaxQuiz == 2
MaxHeads == 2

SeqsUpTo(S, n) == UNION {[1..k -> S] : k \in 0..n}

(***************************************************************************)
(* Python string primitives.                                               *)
(***************************************************************************)
RECURSIVE lstrip(_)
lstrip(s) == IF s # <<>> /\ Head(s) = " " THEN lstrip(Tail(s)) ELSE s

RECURSIVE rstrip(_)
rstrip(s) ==
    IF s # <<>> /\ s[Len(s)] = " " THEN rstrip(SubSeq(s, 1, Len(s) - 1)) ELSE s

\* str.strip()
strip(s) == rstrip(lstrip(s))

\* c in s
Contains(s, c) == \E k \in 1..Len(s) : s[k] = c

\* s.find(c): 0-based index of the first occurrence, -1 if there is none
find(s, c) ==
    IF Contains(s, c)
    THEN (CHOOSE k \in 1..Len(s) : s[k] = c /\ \A j \in 1..(k - 1) : s[j] # c) - 1
    ELSE -1

\* s[start:end] for 0 <= start, 0 <= end
Slice(s, start, end) ==
    LET hi == IF end > Len(s) THEN Len(s) ELSE end
    IN  IF start >= hi THEN <<>> ELSE SubSeq(s, start + 1, hi)

\* query_selector: the first match in document order, as a sequence of
\* length at most one (<<>> is Python's None)
query_selector(matches) == IF matches = <<>> THEN <<>> ELSE <<Head(matches)>>

(***************************************************************************)
(* extract_exam_data: title and category.                                  *)
(***************************************************************************)
\* lines 35-46: the header element, else the first h1; an exception leaves ""
exam_title_of(page) ==
    IF page.titleRaises THEN <<>>
    ELSE IF page.header # <<>> THEN strip(page.header[1])
    ELSE IF page.h1 # <<>> THEN strip(page.h1[1])
    ELSE <<>>

\* lines 48-51
category_of(exam_title) ==
    IF Contains(exam_title, "(") /\ Contains(exam_title, ")")
    THEN strip(Slice(exam_title, find(exam_title, "(") + 1, find(exam_title, ")")))
    ELSE <<>>

(***************************************************************************)
(* extract_exam_data: one question block q.                                *)
(*   q.sel        "item" (div.freebirdFormviewerViewItemsItemItem) or      *)
(*                "listitem" (div[role=listitem])                          *)
(*   q.heads      the elements matching the title class or the heading     *)
(*                role, in document order: [cls, text]                     *)
(*   q.choiceEls  inner texts of the choice-class / radio-role elements    *)
(*   q.labels     inner texts of the label elements                        *)
(*   q.aria       inner texts of the elements with a 'correct' aria-label  *)
(*   q.svgs       the svg glyphs: [fill, label, parent, raises]            *)
(*   q.cls        inner texts of the correct-answer class elements         *)
(*   q.raises     the read of the block that raises: "none", "prompt",     *)
(*                "options" or "answer" (outside the per-glyph try)        *)
(***************************************************************************)
\* lines 55-58: the item-class blocks, else the listitem-role blocks
questions_of(page) ==
    LET items == SelectSeq(page.blocks, LAMBDA b : b.sel = "item")
    IN  IF items # <<>> THEN items
        ELSE SelectSeq(page.blocks, LAMBDA b : b.sel = "listitem")

\* lines 64-65: one selector list, so the first match in document order
q_text_of(q) ==
    LET q_text_el == query_selector(q.heads)
    IN  IF q_text_el # <<>> THEN strip(q_text_el[1].text) ELSE <<>>

\* lines 70-73 and 77-80: the non-empty stripped texts, in order
RECURSIVE nonempty_texts(_)
nonempty_texts(els) ==
    IF els = <<>> THEN <<>>
    ELSE LET text == strip(Head(els))
         IN  (IF text # <<>> THEN <<text>> ELSE <<>>) \o nonempty_texts(Tail(els))

\* lines 68-80
choices_of(q) ==
    LET choices == nonempty_texts(q.choiceEls)
    IN  IF choices = <<>> THEN nonempty_texts(q.labels) ELSE choices

\* line 97: "#34A853" in fill or "green" in fill.lower(); fill is the fill
\* attribute of the glyph's first path ("NoFill": the attribute is absent)
fill_matches(fill) ==
    CASE fill = "#34A853" -> TRUE
      [] fill = "Green"   -> TRUE
      [] fill = "#EA4335" -> FALSE
      [] OTHER            -> FALSE

glyph_text_of_parent(svg) == strip(svg.parent)

\* lines 99-101: e.closest('label') || e.parentElement, then its stripped text
glyph_text(svg) ==
    strip(IF svg.label # <<>> THEN svg.label[1] ELSE svg.parent)

\* lines 93-97: the glyph is read without raising, has a path, and the
\* path's fill matches
glyph_hit(svg) ==
    /\ ~svg.raises
    /\ svg.fill # "NoPath"
    /\ svg.fill # "NoFill"
    /\ fill_matches(svg.fill)

\* lines 92-104: the first glyph that hits sets the answer and breaks; a
\* glyph that raises is passed over (except: continue)
RECURSIVE glyph_scan(_)
glyph_scan(svgs) ==
    IF svgs = <<>> THEN <<>>
    ELSE IF glyph_hit(Head(svgs)) THEN glyph_text(Head(svgs))
    ELSE glyph_scan(Tail(svgs))

\* lines 84-104: the aria element if there is one, else the glyph scan
answer_first(q) ==
    LET correct_el == query_selector(q.aria)
    IN  IF correct_el # <<>> THEN strip(correct_el[1]) ELSE glyph_scan(q.svgs)

\* lines 107-110
answer_class(q, answer) ==
    IF answer = <<>>
    THEN LET correct_class_el == query_selector(q.cls)
         IN  IF correct_class_el # <<>> THEN strip(correct_class_el[1]) ELSE answer
    ELSE answer

answer_fallback_first_choice(answer, choices) ==
    IF answer = <<>> /\ choices # <<>> THEN choices[1] ELSE answer

\* lines 113-115
answer_fallback(answer, choices) ==
    IF answer = <<>> /\ choices # <<>> THEN <<>> ELSE answer

\* lines 84-115
answer_of(q) == answer_fallback(answer_class(q, answer_first(q)), choices_of(q))

\* The strategies whose query lines 86, 91 and 108 run on q.
consulted_of(q) ==
    {1} \cup (IF query_selector(q.aria) = <<>> THEN {2} ELSE {})
        \cup (IF answer_first(q) = <<>> THEN {3} ELSE {})

record_of_zero_based(q, i, exam_title, category) ==
    [question_number |-> i - 1, question |-> q_text_of(q), type |-> "choice",
     choices |-> choices_of(q), answer |-> answer_of(q),
     exam |-> exam_title, category |-> category]

\* lines 117-127; "choice" stands for the fixed type literal of line 121
record_of(q, i, exam_title, category) ==
    [question_number |-> i, question |-> q_text_of(q), type |-> "choice",
     choices |-> choices_of(q), answer |-> answer_of(q),
     exam |-> exam_title, category |-> category]

block_raises_on_glyph(q) == q.raises # "none" \/ \E k \in 1..Len(q.svgs) : q.svgs[k].raises

\* lines 62-129: an exception of the block's own reads leaves the try body
\* before line 117
block_raises(q) == q.raises # "none"

\* lines 61-129: the loop from block i on
RECURSIVE extract_from(_, _, _, _)
extract_from(questions, i, exam_title, category) ==
    IF i > Len(questions) THEN <<>>
    ELSE (IF block_raises(questions[i]) THEN <<>>
          ELSE <<record_of(questions[i], i, exam_title, category)>>)
         \o extract_from(questions, i + 1, exam_title, category)

\* lines 23-131
extract_exam_data(page) ==
    LET exam_title == exam_title_of(page)
    IN  extract_from(questions_of(page), 1, exam_title, category_of(exam_title))

(***************************************************************************)
(* The pages the extractor is run on.                                      *)
(***************************************************************************)
TitleChars == {"(", ")", "a", " "}

Fills == {"NoPath", "NoFill", "#34A853", "Green", "#EA4335"}

\* A glyph that is read without raising, and one whose read raises.
Glyphs ==
    {[fill |-> f, label |-> l, parent |-> <<"x">>, raises |-> FALSE] :
        f \in Fills, l \in {<<>>, << <<" ">> >>, << <<" ", "P", " ">> >>}}
    \cup {[fill |-> "#34A853", label |-> << <<"P">> >>, parent |-> <<"x">>,
           raises |-> TRUE]}

PlainBlock ==
    [sel |-> "item", heads |-> <<>>, choiceEls |-> <<>>, labels |-> <<>>,
     aria |-> <<>>, svgs |-> <<>>, cls |-> <<>>, raises |-> "none"]

TitleHead == [cls |-> "title", text |-> <<" ", "Q", " ">>]
RoleHead == [cls |-> "heading", text |-> <<"H">>]

RaisingGlyph ==
    [fill |-> "#34A853", label |-> << <<"P">> >>, parent |-> <<"x">>, raises |-> TRUE]

\* Blocks that differ in how they are found, in their prompt and in the
\* read that raises: one of the block's own reads, or the read of a glyph.
CoarseBlocks ==
    {[sel |-> k[1], heads |-> <<k[2]>>,
      choiceEls |-> <<<<" ", "A">>, <<>>, <<"B">>>>, labels |-> <<>>,
      aria |-> <<>>, svgs |-> IF e = "glyph" THEN <<RaisingGlyph>> ELSE <<>>,
      cls |-> << <<"C">> >>, raises |-> IF e = "glyph" THEN "none" ELSE e] :
        k \in {<<"item", TitleHead>>, <<"item", RoleHead>>, <<"listitem", TitleHead>>},
        e \in {"none", "prompt", "options", "answer", "glyph"}}

\* Blocks that differ in their options and in their correctness signals.
RichBlocks ==
    {[sel |-> "item", heads |-> <<TitleHead>>,
      choiceEls |-> [j \in 1..k |-> <<"A">>], labels |-> <<>>,
      aria |-> a, svgs |-> g, cls |-> c, raises |-> "none"] :
        k \in 0..MaxOptions,
        a \in {<<>>, << <<" ">> >>, << <<" ", "R", " ">> >>},
        g \in SeqsUpTo(Glyphs, MaxGlyphs),
        c \in {<<>>, << <<"C">> >>}}

\* Blocks that differ in the elements the prompt selector of line 64 matches,
\* in document order.
HeadBlocks ==
    {[sel |-> "item", heads |-> h,
      choiceEls |-> << <<"A">> >>, labels |-> <<>>,
      aria |-> << <<"R">> >>, svgs |-> <<>>, cls |-> <<>>, raises |-> "none"] :
        h \in SeqsUpTo({TitleHead, RoleHead}, MaxHeads)}

PageOf(header, h1, titleRaises, blocks) ==
    [header |-> header, h1 |-> h1, titleRaises |-> titleRaises, blocks |-> blocks]

FixedHeader == << <<"T", " ", "(", "a", ")">> >>

CoarsePages ==
    {PageOf(FixedHeader, <<>>, FALSE, b) : b \in SeqsUpTo(CoarseBlocks, MaxBlocks)}

RichPages == {PageOf(FixedHeader, <<>>, FALSE, <<b>>) : b \in RichBlocks}

HeadPages == {PageOf(FixedHeader, <<>>, FALSE, <<b>>) : b \in HeadBlocks}

TitlePages ==
    {PageOf(hd, h, e, <<PlainBlock>>) :
        hd \in {<<>>} \cup {<<t>> : t \in SeqsUpTo(TitleChars, MaxTitleLen)},
        h \in {<<>>, << <<" ", "(", "a", ")">> >>},
        e \in BOOLEAN}

NoPage == PageOf(<<>>, <<>>, FALSE, <<>>)

(***************************************************************************)
(* Running the extractor on a page.                                        *)
(***************************************************************************)
Req == {1, 2}

\* A request before its update is handled.
\*   pc          the statement of scrape_command the handler is at
\*   sent        what the requester has been sent, in order
\*   playwright  the sync_playwright() context: "none", "started", "stopped"
\*   browser     "none", "open" once launched, "closed" once close() returned
\*   first       <<the form fill_first_page met, what its three steps did>>
\*               between fill_first_page and the next statement, else <<>>
\*   second      <<the page fill_second_page met, what it did>> between
\*               fill_second_page and the next statement, else <<>>
\*   late        the bounded wait that has just timed out ("form", "radios",
\*               "reveal"), until the next statement of the run; else "none"
\*   clicked     the value click_view_score returned: "none", "yes", "no"
\*   idle        how wait_for_load_state ended: "none", "ok", "timeout"
\*   extracted   extract_exam_data has been called
\*   data        the local exam_data
\*   empty       extract_exam_data returned an empty list
\*   wrote       this run has written exam.json
\*   got         the content of the document the requester received
IdleReq ==
    [pc |-> "idle", sent |-> <<>>, playwright |-> "none", browser |-> "none",
     first |-> <<>>, second |-> <<>>, late |-> "none", clicked |-> "none",
     idle |-> "none",
     extracted |-> FALSE, data |-> <<>>, empty |-> FALSE, wrote |-> FALSE,
     got |-> <<>>]

FlowOff == req = [r \in Req |-> IdleReq] /\ exam_json = <<>> /\ running = 0

ExtractInit == viewscore \in CoarsePages /\ exam_data = <<>> /\ xpc = "ready" /\ FlowOff

BlockInit ==
    /\ viewscore \in RichPages \cup HeadPages
    /\ exam_data = <<>> /\ xpc = "ready" /\ FlowOff

TitleInit == viewscore \in TitlePages /\ exam_data = <<>> /\ xpc = "ready" /\ FlowOff

\* line 337, on its own
RunExtract ==
    /\ xpc = "ready"
    /\ exam_data' = extract_exam_data(viewscore)
    /\ xpc' = "done"
    /\ UNCHANGED <<viewscore, req, exam_json, running>>

ExtractNext == RunExtract

ExtractSpec == ExtractInit /\ [][ExtractNext]_vars

BlockSpec == BlockInit /\ [][ExtractNext]_vars

TitleSpec == TitleInit /\ [][ExtractNext]_vars

(***************************************************************************)
(* The page functions of the navigator.                                    *)
(***************************************************************************)
\* lines 137-160, 163-185, 188-203: one step of fill_first_page.  el is what
\* the step's lookup meets: "found", "missing", or "raises" when a call
\* inside the step's try raises.
first_page_step(el) ==
    CASE el = "found"   -> "done"
      [] el = "missing" -> "warned"
      [] el = "raises"  -> "caught"

\* One try around the three steps: the first raise ends the function.
fill_first_page_one_try(form) ==
    <<first_page_step(form.name),
      IF form.name = "raises" THEN "skipped" ELSE first_page_step(form.checkbox),
      IF "raises" \in {form.name, form.checkbox} THEN "skipped"
      ELSE first_page_step(form.next)>>

\* lines 134-203: the three steps, each in its own try/except
fill_first_page(form) ==
    <<first_page_step(form.name), first_page_step(form.checkbox),
      first_page_step(form.next)>>

\* lines 223-239: the activation of the option chosen in one question block;
\* the tiers tried, in order.  q.label is "none" when the chosen control has
\* no label inside it.
option_tiers(q) ==
    IF q.radios = 0 THEN <<>>
    ELSE IF q.direct = "ok" THEN <<"direct">>
    ELSE IF q.label = "none" THEN <<"direct", "script">>
    ELSE <<"direct", "label">>

\* lines 241-252: the submission control
submit_of(quiz) == IF quiz.submit = "present" THEN "clicked" ELSE "warned"

\* lines 218-239: the blocks up to the first one whose option query raises
RECURSIVE select_options(_)
select_options(questions) ==
    IF questions = <<>> \/ Head(questions).queryRaises THEN <<>>
    ELSE <<option_tiers(Head(questions))>> \o select_options(Tail(questions))

\* lines 206-254: [tiers per handled block, what became of the submission]
fill_second_page(quiz) ==
    IF quiz.questions = <<>>
    THEN [tiers |-> <<>>, submit |-> "not attempted"]
    ELSE IF \E k \in 1..Len(quiz.questions) : quiz.questions[k].queryRaises
    THEN [tiers |-> select_options(quiz.questions), submit |-> "not attempted"]
    ELSE IF quiz.submit = "raises"
    THEN [tiers |-> select_options(quiz.questions), submit |-> "caught"]
    ELSE [tiers |-> select_options(quiz.questions), submit |-> submit_of(quiz)]

\* lines 257-281: the three lookups in order, then the click
click_view_score(conf) ==
    IF conf.raises THEN FALSE
    ELSE conf.div \/ conf.button \/ conf.exact

\* lines 345-346: what json.dump leaves in exam.json
json_dump(data) == <<"json", data>>

(***************************************************************************)
(* The inputs of the navigator.                                            *)
(***************************************************************************)
Lookups == {"found", "missing", "raises"}

Forms == [name : Lookups, checkbox : Lookups, next : Lookups]

QuizBlocks ==
    {[radios |-> 0, direct |-> "ok", label |-> "none", queryRaises |-> FALSE],
     [radios |-> 2, direct |-> "ok", label |-> "none", queryRaises |-> FALSE],
     [radios |-> 2, direct |-> "raises", label |-> "none", queryRaises |-> FALSE],
     [radios |-> 2, direct |-> "raises", label |-> "raises", queryRaises |-> FALSE]}

\* A block whose option query raises.
RaisingBlock ==
    [radios |-> 2, direct |-> "ok", label |-> "none", queryRaises |-> TRUE]

\* The blocks of an answer-selection page.  The loop of line 218 ends at a
\* block that raises, so such a block is taken to be the page's last.
QuizQuestions ==
    SeqsUpTo(QuizBlocks, MaxQuiz)
    \cup {Append(qs, RaisingBlock) : qs \in SeqsUpTo(QuizBlocks, MaxQuiz - 1)}

Quizzes == [questions : QuizQuestions, submit : {"present", "absent", "raises"}]

Confirmations == [div : BOOLEAN, button : BOOLEAN, exact : BOOLEAN, raises : BOOLEAN]

GoodBlock == CHOOSE b \in CoarseBlocks :
    b.sel = "item" /\ b.heads = <<TitleHead>> /\ b.raises = "none" /\ b.svgs = <<>>

BadBlock == [GoodBlock EXCEPT !.raises = "prompt"]

\* The results pages a run may meet.
FlowPages ==
    {PageOf(FixedHeader, <<>>, FALSE, b) :
        b \in {<<>>, <<GoodBlock>>, <<BadBlock>>, <<BadBlock, GoodBlock>>}}

(***************************************************************************)
(* scrape_command.  The handler runs on the event loop: between two awaits *)
(* it is not interleaved with another handler.  Every browser call and     *)
(* every file operation may raise; a reply to the requester is taken to be *)
(* delivered.                                                              *)
(***************************************************************************)
At(r, p) == req[r].pc = p /\ running \in {0, r}

\* A step that does not await: r keeps the event loop.
Step(r, new) ==
    /\ req' = [req EXCEPT ![r] = new]
    /\ running' = r
    /\ UNCHANGED <<viewscore, exam_data, xpc, exam_json>>

\* A step that ends in an await, or that returns: the event loop is free.
Yield(r, new) ==
    /\ req' = [req EXCEPT ![r] = new]
    /\ running' = 0
    /\ UNCHANGED <<viewscore, exam_data, xpc, exam_json>>

\* An exception inside the with block: __exit__ stops Playwright and the
\* exception reaches line 357.
Raised(s) == [s EXCEPT !.pc = "except", !.playwright = "stopped"]

\* lines 285-294
Receive(r) ==
    /\ At(r, "idle")
    /\ \E nargs \in 0..2 :
          IF nargs # 1
          THEN Yield(r, [req[r] EXCEPT !.pc = "done", !.sent = Append(@, "usage")])
          ELSE Yield(r, [req[r] EXCEPT !.pc = "playwright", !.sent = Append(@, "ack")])

\* line 297
StartPlaywright(r) ==
    /\ At(r, "playwright")
    /\ \/ Step(r, [req[r] EXCEPT !.pc = "launch", !.playwright = "started"])
       \/ Step(r, [req[r] EXCEPT !.pc = "except"])

\* line 298
Launch(r) ==
    /\ At(r, "launch")
    /\ \/ Step(r, [req[r] EXCEPT !.pc = "new_page", !.browser = "open"])
       \/ Step(r, Raised(req[r]))

\* lines 299-300
NewPage(r) ==
    /\ At(r, "new_page")
    /\ \/ Step(r, [req[r] EXCEPT !.pc = "goto"])
       \/ Step(r, Raised(req[r]))

\* line 303
Goto(r) ==
    /\ At(r, "goto")
    /\ \/ Step(r, [req[r] EXCEPT !.pc = "wait_form"])
       \/ Step(r, Raised(req[r]))

\* line 306: no try around it, a timeout is an exception like any other
WaitForm(r) ==
    /\ At(r, "wait_form")
    /\ \/ Step(r, [req[r] EXCEPT !.pc = "first_page"])
       \/ Step(r, Raised([req[r] EXCEPT !.late = "form"]))
       \/ Step(r, Raised(req[r]))

\* line 309
FillFirstPage(r) ==
    /\ At(r, "first_page")
    /\ \E form \in Forms :
          Step(r, [req[r] EXCEPT !.pc = "wait_radios",
                                 !.first = <<form, fill_first_page(form)>>])

\* lines 312-315: the selector appears or the wait times out (logged), and
\* the run goes on either way; any other exception is not caught here
WaitRadios(r) ==
    /\ At(r, "wait_radios")
    /\ \/ Step(r, [req[r] EXCEPT !.pc = "second_page", !.first = <<>>])
       \/ Step(r, [req[r] EXCEPT !.pc = "second_page", !.first = <<>>,
                                 !.late = "radios"])
       \/ Step(r, Raised([req[r] EXCEPT !.first = <<>>]))

\* line 318
FillSecondPage(r) ==
    /\ At(r, "second_page")
    /\ \E quiz \in Quizzes :
          Step(r, [req[r] EXCEPT !.pc = "wait_reveal", !.late = "none",
                                 !.second = <<quiz, fill_second_page(quiz)>>])

\* A wait for the reveal control that sends the run back to answer selection
\* when it times out.
WaitReveal_retry(r) ==
    /\ At(r, "wait_reveal")
    /\ \/ Step(r, [req[r] EXCEPT !.pc = "view_score", !.second = <<>>])
       \/ Step(r, [req[r] EXCEPT !.pc = "second_page", !.second = <<>>,
                                 !.late = "reveal"])
       \/ Step(r, Raised([req[r] EXCEPT !.second = <<>>]))

\* lines 321-324: as for lines 312-315
WaitReveal(r) ==
    /\ At(r, "wait_reveal")
    /\ \/ Step(r, [req[r] EXCEPT !.pc = "view_score", !.second = <<>>])
       \/ Step(r, [req[r] EXCEPT !.pc = "view_score", !.second = <<>>,
                                 !.late = "reveal"])
       \/ Step(r, Raised([req[r] EXCEPT !.second = <<>>]))

ClickViewScore_no_return(r) ==
    /\ At(r, "view_score")
    /\ \E conf \in Confirmations :
          Step(r, [req[r] EXCEPT !.pc = "wait_idle", !.late = "none",
                     !.clicked = IF click_view_score(conf) THEN "yes" ELSE "no"])

\* lines 327-331
ClickViewScore(r) ==
    /\ At(r, "view_score")
    /\ \E conf \in Confirmations :
          IF click_view_score(conf)
          THEN Step(r, [req[r] EXCEPT !.pc = "wait_idle", !.late = "none",
                                      !.clicked = "yes"])
          ELSE Step(r, [req[r] EXCEPT !.pc = "no_button", !.late = "none",
                                      !.clicked = "no"])

\* line 328
ReplyNoButton(r) ==
    /\ At(r, "no_button")
    /\ Yield(r, [req[r] EXCEPT !.pc = "close_no_button", !.sent = Append(@, "failure")])

\* lines 330-331, 341-342, 354-355: browser.close(), then the with block is
\* left and the handler returns; or close() raises
Close(r, p) ==
    /\ At(r, p)
    /\ \/ Yield(r, [req[r] EXCEPT !.pc = "done", !.browser = "closed",
                                  !.playwright = "stopped"])
       \/ Step(r, Raised(req[r]))

\* lines 330-331
CloseNoButton(r) == Close(r, "close_no_button")

\* line 334: no try around it, a timeout is an exception
WaitIdle(r) ==
    /\ At(r, "wait_idle")
    /\ \/ Step(r, [req[r] EXCEPT !.pc = "extract", !.idle = "ok"])
       \/ Step(r, Raised([req[r] EXCEPT !.idle = "timeout"]))
       \/ Step(r, Raised(req[r]))

\* lines 337-338
Extract(r) ==
    /\ At(r, "extract")
    /\ \/ \E pg \in FlowPages :
             LET found == extract_exam_data(pg)
             IN  Step(r, [req[r] EXCEPT !.extracted = TRUE, !.data = found,
                             !.empty = (found = <<>>),
                             !.pc = IF found = <<>> THEN "no_data" ELSE "save"])
       \/ Step(r, Raised([req[r] EXCEPT !.extracted = TRUE]))

\* line 339
ReplyNoData(r) ==
    /\ At(r, "no_data")
    /\ Yield(r, [req[r] EXCEPT !.pc = "close_no_data", !.sent = Append(@, "failure")])

\* lines 341-342
CloseNoData(r) == Close(r, "close_no_data")

\* lines 345-346
Save(r) ==
    /\ At(r, "save")
    /\ \/ /\ req' = [req EXCEPT ![r] = [@ EXCEPT !.pc = "send", !.wrote = TRUE]]
          /\ exam_json' = json_dump(req[r].data)
          /\ running' = r
          /\ UNCHANGED <<viewscore, exam_data, xpc>>
       \/ Step(r, Raised(req[r]))

\* lines 351-352: the file is opened and read, and sent as a document
SendDocument(r) ==
    /\ At(r, "send")
    /\ Yield(r, [req[r] EXCEPT !.pc = "close_sent", !.sent = Append(@, "document"),
                               !.got = exam_json])

\* lines 354-355
CloseSent(r) == Close(r, "close_sent")

\* lines 357-359
ReplyFailure(r) ==
    /\ At(r, "except")
    /\ Yield(r, [req[r] EXCEPT !.pc = "done", !.late = "none",
                               !.sent = Append(@, "failure")])

Init ==
    /\ viewscore = NoPage
    /\ exam_data = <<>>
    /\ xpc = "off"
    /\ req = [r \in Req |-> IdleReq]
    /\ exam_json = <<>>
    /\ running = 0

\* lines 296-359: the next statement of the run of request r
Handle(r) ==
        \/ StartPlaywright(r)
        \/ Launch(r)
        \/ NewPage(r)
        \/ Goto(r)
        \/ WaitForm(r)
        \/ FillFirstPage(r)
        \/ WaitRadios(r)
        \/ FillSecondPage(r)
        \/ WaitReveal(r)
        \/ ClickViewScore(r)
        \/ ReplyNoButton(r)
        \/ CloseNoButton(r)
        \/ WaitIdle(r)
        \/ Extract(r)
        \/ ReplyNoData(r)
        \/ CloseNoData(r)
        \/ Save(r)
        \/ SendDocument(r)
        \/ CloseSent(r)
        \/ ReplyFailure(r)

Next == \E r \in Req : Receive(r) \/ Handle(r)

Spec == Init /\ [][Next]_vars

\* The event loop runs every task that is ready, and every call of a run
\* returns or raises (a wait succeeds or times out).
LiveSpec == Spec /\ \A r \in Req : WF_vars(Handle(r))

(***************************************************************************)
(* Properties of scrape_command.                                           *)
(***************************************************************************)
\* C1: on every exit path taken after the browser was launched, the browser
\* has been closed when the handler returns.
C1_BrowserClosedOnReturn ==
    \A r \in Req :
        (req[r].pc = "done" /\ req[r].browser # "none") => req[r].browser = "closed"

\* The requester's last message is the failure notice.
EndsInFailure(r) ==
    req[r].sent # <<>> /\ req[r].sent[Len(req[r].sent)] = "failure"

\* C2: when click_view_score does not find or cannot activate the reveal
\* control, the run ends with the failure notice, extract_exam_data is never
\* called, and the run neither writes exam.json nor sends it.
C2_NoButtonEndsInFailure ==
    \A r \in Req :
        req[r].clicked = "no" =>
            /\ ~req[r].extracted
            /\ ~req[r].wrote
            /\ \A k \in 1..Len(req[r].sent) : req[r].sent[k] # "document"
            /\ req[r].got = <<>>
            /\ req[r].pc \in {"no_button", "close_no_button", "except", "done"}
            /\ req[r].pc # "no_button" => EndsInFailure(r)

C2_Witness ==
    \E r \in Req :
        /\ req[r].clicked = "no"
        /\ req[r].pc = "done"
        /\ req[r].sent = <<"ack", "failure">>
        /\ req[r].browser = "closed"
        /\ exam_json = <<>>

\* C3: a timeout of the wait for network idle after the reveal control was
\* activated is tolerated: the run goes on to extract_exam_data, and the
\* timeout alone never brings the failure outcome.
C3_IdleTimeoutTolerated ==
    \A r \in Req :
        (req[r].idle = "timeout" /\ ~req[r].extracted) =>
            /\ req[r].pc \notin {"except", "done"}
            /\ \A k \in 1..Len(req[r].sent) : req[r].sent[k] # "failure"

\* No document is among what the requester was sent.
NoDocument(r) == \A k \in 1..Len(req[r].sent) : req[r].sent[k] # "document"

\* C11: when the results page yields no question block, or every block is
\* skipped, so that no record is produced, the run ends with the failure
\* notice, the browser is closed, and no artifact is written or sent.
C11_EmptyExtractionFails ==
    \A r \in Req :
        (req[r].empty /\ req[r].pc = "done") =>
            /\ EndsInFailure(r)
            /\ req[r].browser = "closed"
            /\ ~req[r].wrote
            /\ NoDocument(r)
            /\ req[r].got = <<>>

\* C12: a request that passed argument validation gets one acknowledgment
\* and then exactly one terminal outcome, the document or one failure
\* notice, never both and never two notices, whichever step raises.
C12_OneTerminalOutcome ==
    \A r \in Req :
        (req[r].pc = "done" /\ req[r].sent # <<"usage">>) =>
            req[r].sent \in {<<"ack", "document">>, <<"ack", "failure">>}

\* C13: two requests that interleave at their awaits share no state: the
\* document each requester receives holds the records of its own run, and
\* while a run is under way the file it wrote is not overwritten by the other.
C13_RequestsIndependent ==
    \A r \in Req :
        /\ req[r].got # <<>> => req[r].got = json_dump(req[r].data)
        /\ (req[r].wrote /\ req[r].pc # "done") => exam_json = json_dump(req[r].data)

\* The run of request r has returned after its last message, the artifact
\* or the failure notice.
Terminated(r) ==
    /\ req[r].pc = "done"
    /\ req[r].sent[Len(req[r].sent)] \in {"document", "failure"}

\* C20: every request that passes argument validation terminates: as every
\* call returns or raises, the run reaches its end having sent the artifact
\* or the failure notice; no stage is repeated or waited on for ever.
C20_ValidRequestTerminates ==
    \A r \in Req : (req[r].pc = "playwright") ~> Terminated(r)

C20_Witness ==
    /\ \A r \in Req : Terminated(r)
    /\ req[1].sent = <<"ack", "document">>
    /\ req[2].sent = <<"ack", "failure">>
    /\ req[2].clicked = "no"
    /\ req[2].browser = "closed"

\* The page fill_second_page met and what it did, for a run that has just
\* left fill_second_page.
QuizOf(r) == req[r].second[1]
DoneOf(r) == req[r].second[2]

\* C14: a question block for which no option control resolves raises nothing
\* out of fill_second_page: it is skipped, the remaining blocks are still
\* handled, and the submission control is then resolved and, when present,
\* activated.
C14_NoOptionsBlockSkipped ==
    \A r \in Req :
        (req[r].second # <<>>
         /\ \E k \in 1..Len(QuizOf(r).questions) : QuizOf(r).questions[k].radios = 0)
        => /\ req[r].pc = "wait_reveal"
           /\ Len(DoneOf(r).tiers) = Len(QuizOf(r).questions)
           /\ \A k \in 1..Len(QuizOf(r).questions) :
                 (DoneOf(r).tiers[k] = <<>>) <=> (QuizOf(r).questions[k].radios = 0)
           /\ DoneOf(r).submit # "not attempted"
           /\ QuizOf(r).submit = "present" => DoneOf(r).submit = "clicked"

\* C15: the three steps of fill_first_page are independent: whichever of
\* them misses its element or raises, the other two are still attempted,
\* fill_first_page does not raise, and the run goes on to the wait for the
\* answer-selection stage.
C15_FirstPageStepsIndependent ==
    \A r \in Req :
        /\ req[r].first # <<>> =>
              /\ req[r].pc = "wait_radios"
              /\ \A k \in 1..3 :
                    LET met == <<req[r].first[1].name, req[r].first[1].checkbox,
                                 req[r].first[1].next>>[k]
                    IN  req[r].first[2][k] =
                            CASE met = "found"   -> "done"
                              [] met = "missing" -> "warned"
                              [] met = "raises"  -> "caught"
        /\ req[r].pc = "wait_radios" => req[r].first # <<>>

C15_Witness ==
    \E r \in Req :
        /\ req[r].pc = "wait_radios"
        /\ req[r].first # <<>>
        /\ req[r].first[1] = [name |-> "raises", checkbox |-> "missing", next |-> "found"]
        /\ req[r].first[2] = <<"caught", "warned", "done">>

\* C16: a timeout of a bounded wait that comes before the reveal step (the
\* wait for the form, the wait for the answer-selection controls, the wait
\* for the reveal control) is logged and the run goes on to the next stage;
\* it never ends the run in failure.
C16_EarlierTimeoutsTolerated ==
    \A r \in Req : req[r].late # "none" => req[r].pc # "except"

\* C17: every run that reaches the answer-selection step then attempts to
\* resolve the submission control and activates it when it is on the page,
\* whatever happened during answer selection.
C17_SubmissionAlwaysAttempted ==
    \A r \in Req :
        req[r].second # <<>> =>
            /\ DoneOf(r).submit # "not attempted"
            /\ QuizOf(r).submit = "present" => DoneOf(r).submit = "clicked"

\* C18: the chosen option is activated through three tiers: when the direct
\* click fails the click on its label is tried, and when that fails too (or
\* there is no label) the script click is tried.
C18_ThreeTierActivation ==
    \A r \in Req :
        req[r].second # <<>> =>
            \A k \in 1..Len(DoneOf(r).tiers) :
                LET q == QuizOf(r).questions[k]
                    tried == DoneOf(r).tiers[k]
                    Tried(t) == \E j \in 1..Len(tried) : tried[j] = t
                IN  q.radios > 0 =>
                        /\ Tried("direct")
                        /\ (q.direct = "raises" /\ q.label # "none") => Tried("label")
                        /\ (q.direct = "raises" /\ q.label \in {"none", "raises"})
                           => Tried("script")
                        /\ q.direct = "ok" => tried = <<"direct">>

(***************************************************************************)
(* Properties of extract_exam_data.                                        *)
(***************************************************************************)
\* The question blocks of the page: the item-class blocks, or the
\* listitem-role blocks when there is no item-class block.
Detected ==
    IF \E k \in 1..Len(viewscore.blocks) : viewscore.blocks[k].sel = "item"
    THEN SelectSeq(viewscore.blocks, LAMBDA b : b.sel = "item")
    ELSE SelectSeq(viewscore.blocks, LAMBDA b : b.sel = "listitem")

\* The records of exam_data that carry question_number i.
Numbered(i) == {k \in 1..Len(exam_data) : exam_data[k].question_number = i}

\* The prompt a block of CoarseBlocks shows, trimmed.
ShownPrompt(q) == IF q.heads[1].cls = "title" THEN <<"Q">> ELSE <<"H">>

\* The record a block of CoarseBlocks yields at position i, whole.
WholeRecord(q, i) ==
    [question_number |-> i, question |-> ShownPrompt(q), type |-> "choice",
     choices |-> <<<<"A">>, <<"B">>>>, answer |-> <<"C">>,
     exam |-> <<"T", " ", "(", "a", ")">>, category |-> <<"a">>]

\* A glyph whose inspection is run and raises: the scan is reached (no aria
\* element) and no earlier glyph ended it.
GlyphRaised(q) ==
    /\ q.aria = <<>>
    /\ \E k \in 1..Len(q.svgs) :
          /\ q.svgs[k].raises
          /\ \A j \in 1..(k - 1) : ~glyph_hit(q.svgs[j])

\* C4: the question_number values of the returned records, in output order,
\* are 1..K without a gap, also when blocks raise and are left out.
C4_ContiguousNumbers ==
    xpc = "done" => \A k \in 1..Len(exam_data) : exam_data[k].question_number = k

\* C5: a page with N question blocks none of which raises yields exactly N
\* records, the i-th one made from the i-th block and numbered i.
C5_OneRecordPerBlock ==
    (xpc = "done" /\ \A i \in 1..Len(Detected) :
                        Detected[i].raises = "none" /\ ~GlyphRaised(Detected[i]))
    => /\ Len(exam_data) = Len(Detected)
       /\ \A i \in 1..Len(Detected) : exam_data[i] = WholeRecord(Detected[i], i)

C5_Witness ==
    /\ xpc = "done"
    /\ Len(Detected) = 3
    /\ \A i \in 1..3 : Detected[i].raises = "none" /\ Detected[i].svgs = <<>>
    /\ Detected[1].heads # Detected[2].heads
    /\ Len(exam_data) = 3

\* C6 as stated: any exception raised while a block is read, the glyph
\* colour scan included, leaves the block without a record.
C6_AnyExceptionSkips ==
    xpc = "done" =>
        \A i \in 1..Len(Detected) :
            (Detected[i].raises # "none" \/ GlyphRaised(Detected[i]))
            => Numbered(i) = {}

\* C6 amended: an exception of one of the block's own reads (prompt, options,
\* answer queries) leaves the block without a record; an exception inside the
\* inspection of one glyph only passes that glyph over, and the block's record
\* is emitted whole; every block none of whose own reads raises has its record.
C6_OwnReadSkipsGlyphReadDoesNot ==
    xpc = "done" =>
        \A i \in 1..Len(Detected) :
            /\ Detected[i].raises # "none" => Numbered(i) = {}
            /\ Detected[i].raises = "none" =>
                  /\ Cardinality(Numbered(i)) = 1
                  /\ \A k \in Numbered(i) : exam_data[k] = WholeRecord(Detected[i], i)

C6_Witness ==
    /\ xpc = "done"
    /\ Len(Detected) = 3
    /\ Detected[1].raises = "options"
    /\ GlyphRaised(Detected[2])
    /\ Detected[3].raises = "none"
    /\ Numbered(1) = {} /\ Numbered(2) = {1} /\ Numbered(3) = {2}

\* The text strictly between the first "(" of t and the first ")" after it,
\* <<>> when t has no "(" or no ")" after it.
Between(t) ==
    IF \E a \in 1..Len(t) : t[a] = "(" /\ \E b \in (a + 1)..Len(t) : t[b] = ")"
    THEN LET a == CHOOSE a \in 1..Len(t) :
                      t[a] = "(" /\ \A j \in 1..(a - 1) : t[j] # "("
             b == CHOOSE b \in (a + 1)..Len(t) :
                      t[b] = ")" /\ \A j \in (a + 1)..(b - 1) : t[j] # ")"
         IN  SubSeq(t, a + 1, b - 1)
    ELSE <<>>

\* The same text without its leading and trailing blanks.
Trimmed(t) ==
    IF \A k \in 1..Len(t) : t[k] = " " THEN <<>>
    ELSE LET a == CHOOSE a \in 1..Len(t) : t[a] # " " /\ \A j \in 1..(a - 1) : t[j] = " "
             b == CHOOSE b \in 1..Len(t) : t[b] # " " /\ \A j \in (b + 1)..Len(t) : t[j] = " "
         IN  SubSeq(t, a, b)

\* C7: the category on the records is the text strictly between the first "("
\* of the exam title and the first ")" that follows it (read up to the
\* trimming of line 51), and empty when there is no such pair; also for
\* titles with a ")" before the first "(".
C7_CategoryBetweenParens ==
    xpc = "done" =>
        \A k \in 1..Len(exam_data) :
            exam_data[k].category = Trimmed(Between(exam_data[k].exam))

\* What each strategy yields on q when run on its own, <<>> for nothing.
ByAria(q) == IF q.aria # <<>> THEN Trimmed(q.aria[1]) ELSE <<>>

ByGlyph(q) ==
    IF \E k \in 1..Len(q.svgs) : glyph_hit(q.svgs[k])
    THEN LET k == CHOOSE k \in 1..Len(q.svgs) :
                      glyph_hit(q.svgs[k]) /\ \A j \in 1..(k - 1) : ~glyph_hit(q.svgs[j])
             g == q.svgs[k]
         IN  Trimmed(IF g.label # <<>> THEN g.label[1] ELSE g.parent)
    ELSE <<>>

ByClass(q) == IF q.cls # <<>> THEN Trimmed(q.cls[1]) ELSE <<>>

\* C8: the answer is that of the first strategy, in the order aria marker,
\* glyph colour scan, correct-answer class, that yields a text; a strategy is
\* consulted exactly when every earlier one yielded no text.
C8_FirstStrategyWins ==
    xpc = "done" =>
        \A k \in 1..Len(exam_data) :
            LET q == Detected[exam_data[k].question_number]
            IN  /\ exam_data[k].answer =
                      IF ByAria(q) # <<>> THEN ByAria(q)
                      ELSE IF ByGlyph(q) # <<>> THEN ByGlyph(q)
                      ELSE ByClass(q)
                /\ 1 \in consulted_of(q)
                /\ 2 \in consulted_of(q) <=> ByAria(q) = <<>>
                /\ 3 \in consulted_of(q) <=> (ByAria(q) = <<>> /\ ByGlyph(q) = <<>>)

\* The fills that count as the mark of a correct answer.
AccentFills == {"#34A853", "Green"}

\* Block q has one correctness signal only: glyph k, of fill #34A853, inside
\* a label, read without raising.
OnlyGlyphSignal(q, k) ==
    /\ q.aria = <<>>
    /\ q.cls = <<>>
    /\ q.svgs[k].fill = "#34A853"
    /\ q.svgs[k].label # <<>>
    /\ ~q.svgs[k].raises
    /\ \A j \in 1..Len(q.svgs) : j # k => q.svgs[j].fill \notin AccentFills

\* C9: when the only correctness signal of a block is a glyph of fill
\* #34A853 nested in a label, the answer is the trimmed text of that label.
C9_GlyphAnswerIsLabelText ==
    xpc = "done" =>
        \A k \in 1..Len(exam_data) :
            LET q == Detected[exam_data[k].question_number]
            IN  \A g \in 1..Len(q.svgs) :
                    OnlyGlyphSignal(q, g)
                    => exam_data[k].answer = Trimmed(q.svgs[g].label[1])

C9_Witness ==
    /\ xpc = "done"
    /\ Len(exam_data) = 1
    /\ Len(Detected[1].svgs) = 2
    /\ OnlyGlyphSignal(Detected[1], 2)
    /\ Detected[1].svgs[2].label = << <<" ", "P", " ">> >>
    /\ exam_data[1].answer = <<"P">>

\* Block q has no correctness signal at all.
NoSignal(q) ==
    /\ q.aria = <<>>
    /\ q.cls = <<>>
    /\ \A j \in 1..Len(q.svgs) : q.svgs[j].fill \notin AccentFills

\* C10: a block with no aria marker, no glyph of a matching fill and no
\* correct-answer class element gets the empty answer, whatever the number of
\* its options.
C10_NoSignalEmptyAnswer ==
    xpc = "done" =>
        \A k \in 1..Len(exam_data) :
            NoSignal(Detected[exam_data[k].question_number])
            => exam_data[k].answer = <<>>

C10_Witness ==
    /\ xpc = "done"
    /\ Len(exam_data) = 1
    /\ NoSignal(Detected[1])
    /\ Len(Detected[1].svgs) = 2
    /\ Len(exam_data[1].choices) = 2
    /\ exam_data[1].answer = <<>>

\* The elements of class c among those the prompt selector matches in q.
HeadsOf(q, c) == SelectSeq(q.heads, LAMBDA h : h.cls = c)

\* C19: the prompt of a block is resolved in two ordered tiers: the trimmed
\* text of the block's title-class element when it has one, wherever its
\* heading-role elements are; else the trimmed text of its heading-role
\* element; else the empty string.
C19_TitleClassBeforeHeadingRole ==
    xpc = "done" =>
        \A k \in 1..Len(exam_data) :
            LET q == Detected[exam_data[k].question_number]
            IN  exam_data[k].question =
                    IF HeadsOf(q, "title") # <<>>
                    THEN Trimmed(HeadsOf(q, "title")[1].text)
                    ELSE IF HeadsOf(q, "heading") # <<>>
                    THEN Trimmed(HeadsOf(q, "heading")[1].text)
                    ELSE <<>>

====
